---- MODULE Spec2Model ----
(***************************************************************************)
(* Model of rustmatica's Region (src/region.rs) and of the vector helpers  *)
(* it uses (src/util.rs): construction from two corners, the position <->  *)
(* index mapping, the palette, the bit-packed block array exchanged        *)
(* through to_raw / from_raw, the tile entity list and the Blocks          *)
(* iterator.                                                               *)
(*                                                                         *)
(* A BlockState is modelled by a natural number (two block states are      *)
(* equal iff the numbers are equal); block!() is Air.  An i64 word of the  *)
(* LongArray is modelled by its 64 two's-complement bits, least            *)
(* significant bit first, because its value does not fit the integers of   *)
(* the model checker.  Palette ids and cell indices are 0-based as in the  *)
(* code; sequences are 1-based, hence the +1 where a Vec is indexed.       *)
(***************************************************************************)
EXTENDS Integers, Sequences, FiniteSets, TLC

VARIABLES region, pc, raw, index, yielded, built, nops, call

vars == <<region, pc, raw, index, yielded, built, nops, call>>

(***************************************************************************)
(* Bounds of the exploration.                                              *)
(***************************************************************************)
MaxX == 1
MaxY == 1
MaxZ == 1
MaxValue == 2
MaxOps == 2
MaxTilePos == 1
MaxTileData == 2
MaxIndexCoord == 1
PackExtent == 22
MaxPackValue == 4
MaxRawSize == 2
MaxRawPalette == 2
MaxRawWords == 2

WordBits == 64

Air == 0

Name == "region"

(***************************************************************************)
(* util.rs                                                                 *)
(***************************************************************************)
Vec3(x, y, z) == [x |-> x, y |-> y, z |-> z]

unsigned_abs(n) == IF n < 0 THEN 0 - n ELSE n

int_signum(n) == IF n < 0 THEN 0 - 1 ELSE IF n > 0 THEN 1 ELSE 0

volume(v) == unsigned_abs(v.x) * unsigned_abs(v.y) * unsigned_abs(v.z)

abs(v) == Vec3(unsigned_abs(v.x), unsigned_abs(v.y), unsigned_abs(v.z))

signum(v) == Vec3(int_signum(v.x), int_signum(v.y), int_signum(v.z))

size_to(a, b) ==
    Vec3(unsigned_abs(a.x - b.x) + 1,
         unsigned_abs(a.y - b.y) + 1,
         unsigned_abs(a.z - b.z) + 1)

UVec3_volume(u) == u.x * u.y * u.z

volume_to(a, b) == UVec3_volume(size_to(a, b))

add(a, b) == Vec3(a.x + b.x, a.y + b.y, a.z + b.z)

sub(a, b) == Vec3(a.x - b.x, a.y - b.y, a.z - b.z)

(***************************************************************************)
(* Iterator adaptors used by to_raw and from_raw.                          *)
(***************************************************************************)
int_min(a, b) == IF a < b THEN a ELSE b

int_max(a, b) == IF a > b THEN a ELSE b

RECURSIVE pow2(_)
pow2(n) == IF n = 0 THEN 1 ELSE 2 * pow2(n - 1)

\* slice.chunks(n): consecutive pieces of n elements, the last one shorter
\* when n does not divide the length.
chunks(s, n) ==
    [k \in 1..((Len(s) + n - 1) \div n) |->
        SubSeq(s, (k - 1) * n + 1, int_min(k * n, Len(s)))]

\* The bits of an id taken most significant first.
id_bits_msb_first(id, n) == [b \in 1..n |-> (id \div pow2(n - b)) % 2]

\* (0..n).map(|bit| id >> bit & 1)
id_bits(id, n) == [b \in 1..n |-> (id \div pow2(b - 1)) % 2]

\* blocks.iter().flat_map(|id| (0..num_bits).map(move |bit| id >> bit & 1))
RECURSIVE flat_map_ids(_, _)
flat_map_ids(ids, n) ==
    IF ids = <<>> THEN <<>>
    ELSE id_bits(Head(ids), n) \o flat_map_ids(Tail(ids), n)

\* bits.iter().rev().fold(0, |acc, bit| acc << 1 | bit as i64): bit k of the
\* word is bits[k]; the bits a short last chunk does not supply stay 0.
fold_word(bits) == [b \in 1..WordBits |-> IF b <= Len(bits) THEN bits[b] ELSE 0]

\* (0..64).map(|bit| block >> bit & 1)
word_bits(w) == [b \in 1..WordBits |-> w[b]]

\* block_states.iter().flat_map(|block| (0..64).map(...))
RECURSIVE flat_map_words(_)
flat_map_words(ws) ==
    IF ws = <<>> THEN <<>>
    ELSE word_bits(Head(ws)) \o flat_map_words(Tail(ws))

\* slice.iter().rev().fold(0, |acc, bit| acc << 1 | bit as usize)
RECURSIVE fold_id(_)
fold_id(slice) ==
    IF slice = <<>> THEN 0
    ELSE Head(slice) + 2 * fold_id(Tail(slice))

None == 0 - 1

\* A search that starts after the first element.
position_skip_first(s, x) ==
    IF \E i \in 2..Len(s) : s[i] = x
    THEN (CHOOSE i \in 2..Len(s) : s[i] = x /\ \A j \in 2..(i - 1) : s[j] # x) - 1
    ELSE None

\* Vec::iter().position(|b| b == x): 0-based index of the first equal
\* element, None when there is none.
position(s, x) ==
    IF \E i \in 1..Len(s) : s[i] = x
    THEN (CHOOSE i \in 1..Len(s) : s[i] = x /\ \A j \in 1..(i - 1) : s[j] # x) - 1
    ELSE None

(***************************************************************************)
(* region.rs: Region                                                       *)
(***************************************************************************)
new(name, corner1, corner2) ==
    LET size == volume(sub(corner1, corner2))
    IN  [name |-> name,
         corner1 |-> corner1,
         corner2 |-> corner2,
         tile_entities |-> <<>>,
         entities |-> <<>>,
         palette |-> <<Air>>,
         blocks |-> [i \in 1..size |-> 0]]

RECURSIVE num_bits_from(_, _)
num_bits_from(n, len) == IF pow2(n) < len THEN num_bits_from(n + 1, len) ELSE n

num_bits(r) == num_bits_from(2, Len(r.palette))

size(r) == size_to(r.corner1, r.corner2)

min_x(r) == int_min(r.corner1.x, r.corner2.x)
max_x(r) == int_max(r.corner1.x, r.corner2.x)
min_y(r) == int_min(r.corner1.y, r.corner2.y)
max_y(r) == int_max(r.corner1.y, r.corner2.y)
min_z(r) == int_min(r.corner1.z, r.corner2.z)
max_z(r) == int_max(r.corner1.z, r.corner2.z)

\* The origin taken to be the first corner.
blocks_origin_corner1(r) == r.corner1

blocks_origin(r) == Vec3(min_x(r), min_y(r), min_z(r))

\* y derived from the y extent instead of the z extent.
index_to_pos_y_extent(r, i) ==
    LET s == size(r)
        p == Vec3(i % s.x, i \div (s.y * s.x), (i \div s.x) % s.z)
    IN  add(blocks_origin(r), p)

index_to_pos(r, i) ==
    LET s == size(r)
        p == Vec3(i % s.x, i \div (s.z * s.x), (i \div s.x) % s.z)
    IN  add(blocks_origin(r), p)

pos_to_index(r, pos) ==
    LET rr == abs(sub(pos, blocks_origin(r)))
        s == size(r)
    IN  rr.y * s.x * s.z + rr.z * s.x + rr.x

Region_volume(r) == volume_to(r.corner1, r.corner2)

\* Indexing a Vec out of range panics.
Panic == "panic"

get_block(r, pos) ==
    LET blocks_idx == pos_to_index(r, pos)
    IN  IF blocks_idx < Len(r.blocks)
        THEN IF r.blocks[blocks_idx + 1] < Len(r.palette)
             THEN r.palette[r.blocks[blocks_idx + 1] + 1]
             ELSE Panic
        ELSE Panic

to_raw(r) ==
    LET s == sub(r.corner2, r.corner1)
        nb == num_bits(r)
        words == chunks(flat_map_ids(r.blocks, nb), WordBits)
    IN  [position |-> r.corner1,
         size |-> add(s, signum(s)),
         block_state_palette |-> r.palette,
         tile_entities |-> r.tile_entities,
         entities |-> r.entities,
         pending_fluid_ticks |-> <<>>,
         pending_block_ticks |-> <<>>,
         block_states |-> [w \in 1..Len(words) |-> fold_word(words[w])]]

from_raw(rw, name) ==
    LET corner1 == rw.position
        corner2 == sub(add(rw.position, rw.size), signum(rw.size))
        n == [new(name, corner1, corner2) EXCEPT
                 !.palette = rw.block_state_palette,
                 !.tile_entities = rw.tile_entities,
                 !.entities = rw.entities]
        nb == num_bits(n)
        slices == chunks(flat_map_words(rw.block_states), nb)
    IN  [n EXCEPT !.blocks = [k \in 1..Len(slices) |-> fold_id(slices[k])]]

(***************************************************************************)
(* Inputs of the region specification: the two corners given to            *)
(* Region::new, the positions and block states given to set_block.  The    *)
(* positions reach one step outside the largest box on every side.         *)
(***************************************************************************)
XCoords == (0 - MaxX)..MaxX
YCoords == {0 - MaxY, MaxY}
ZCoords == {0, MaxZ}

Corners == {Vec3(x, y, z) : x \in XCoords, y \in YCoords, z \in ZCoords}

Positions ==
    {Vec3(x, y, z) : x \in (0 - MaxX - 1)..(MaxX + 1),
                     y \in (0 - MaxY - 1)..(MaxY + 1),
                     z \in (0 - 1)..(MaxZ + 1)}

Values == 0..MaxValue

InBox(r, p) ==
    /\ min_x(r) <= p.x /\ p.x <= max_x(r)
    /\ min_y(r) <= p.y /\ p.y <= max_y(r)
    /\ min_z(r) <= p.z /\ p.z <= max_z(r)

BoxPositions(r) ==
    {Vec3(x, y, z) : x \in min_x(r)..max_x(r),
                     y \in min_y(r)..max_y(r),
                     z \in min_z(r)..max_z(r)}

(***************************************************************************)
(* Operations.  pc is "idle" between calls, "iter" while a Blocks iterator *)
(* borrows the region, "ended" once it has returned None, and "panicked"   *)
(* after an out-of-range index.  raw holds the record returned by to_raw   *)
(* (<<>> when there is none); it borrows the region, which is therefore    *)
(* not mutated while the record is alive.  built remembers the             *)
(* constructor of the current region; the caller modelled here mutates a   *)
(* region it built with Region::new and only reads a hydrated one.  nops   *)
(* counts the mutating calls.  call is <<>> or describes the last call of  *)
(* set_block (the block and the locals blocks_idx and palette_idx), or of  *)
(* pos_to_index or index_to_pos made on its own (argument and result).     *)
(***************************************************************************)
set_block(pos, block) ==
    LET blocks_idx == pos_to_index(region, pos)
        found == position(region.palette, block)
        pal == IF found # None THEN region.palette ELSE Append(region.palette, block)
        palette_idx == IF found # None THEN found ELSE Len(pal) - 1
    IN  /\ pc = "idle"
        /\ raw = <<>>
        /\ built = "new"
        /\ IF blocks_idx < Len(region.blocks)
           THEN /\ region' = [region EXCEPT !.palette = pal,
                                            !.blocks[blocks_idx + 1] = palette_idx]
                /\ pc' = "idle"
           ELSE /\ region' = [region EXCEPT !.palette = pal]
                /\ pc' = "panicked"
        /\ call' = <<"set_block", block, blocks_idx, palette_idx>>
        /\ UNCHANGED <<raw, index, yielded, built>>

SetBlock ==
    /\ nops < MaxOps
    /\ nops' = nops + 1
    /\ \E pos \in Positions, block \in Values : set_block(pos, block)

TilePositions == {Vec3(x, 0, 0) : x \in 0..MaxTilePos}

TileEntities == {[pos |-> p, data |-> d] : p \in TilePositions, d \in 1..MaxTileData}

tile_positions(r) == [k \in 1..Len(r.tile_entities) |-> r.tile_entities[k].pos]

get_tile_entity(r, pos) ==
    LET i == position(tile_positions(r), pos)
    IN  IF i # None THEN <<r.tile_entities[i + 1]>> ELSE <<>>

\* Vec::remove(index), index 0-based.
remove(s, i) == SubSeq(s, 1, i) \o SubSeq(s, i + 2, Len(s))

set_tile_entity(tile_entity) ==
    LET i == position(tile_positions(region), tile_entity.pos)
    IN  /\ pc = "idle"
        /\ raw = <<>>
        /\ built = "new"
        /\ region' = [region EXCEPT !.tile_entities =
                         IF i # None
                         THEN [region.tile_entities EXCEPT ![i + 1] = tile_entity]
                         ELSE Append(region.tile_entities, tile_entity)]
        /\ UNCHANGED <<pc, raw, index, yielded, built, call>>

SetTileEntity ==
    /\ nops < MaxOps
    /\ nops' = nops + 1
    /\ \E tile_entity \in TileEntities : set_tile_entity(tile_entity)

remove_tile_entity(pos) ==
    LET i == position(tile_positions(region), pos)
    IN  /\ pc = "idle"
        /\ raw = <<>>
        /\ built = "new"
        /\ region' = [region EXCEPT !.tile_entities =
                         IF i # None THEN remove(region.tile_entities, i)
                         ELSE region.tile_entities]
        /\ UNCHANGED <<pc, raw, index, yielded, built, call>>

RemoveTileEntity ==
    /\ nops < MaxOps
    /\ nops' = nops + 1
    /\ \E pos \in TilePositions : remove_tile_entity(pos)

\* let raw = region.to_raw();
ToRaw ==
    /\ pc = "idle"
    /\ raw = <<>>
    /\ raw' = <<to_raw(region)>>
    /\ UNCHANGED <<region, pc, index, yielded, built, nops, call>>

\* region = Region::from_raw(Cow::Owned(raw), name);
FromRaw ==
    /\ pc = "idle"
    /\ raw # <<>>
    /\ region' = from_raw(raw[1], region.name)
    /\ built' = "from_raw"
    /\ raw' = <<>>
    /\ UNCHANGED <<pc, index, yielded, nops, call>>

(***************************************************************************)
(* region.rs: Blocks                                                       *)
(***************************************************************************)
\* region.blocks(): Blocks::new
Blocks_new ==
    /\ pc = "idle"
    /\ raw = <<>>
    /\ pc' = "iter"
    /\ index' = 0
    /\ yielded' = <<>>
    /\ UNCHANGED <<region, raw, built, nops, call>>

\* Iterator::next; yielded collects the items returned so far.
Blocks_next ==
    /\ pc = "iter"
    /\ IF index >= Region_volume(region)
       THEN pc' = "ended" /\ UNCHANGED <<index, yielded>>
       ELSE IF index >= Len(region.blocks)
       THEN pc' = "ended" /\ UNCHANGED <<index, yielded>>
       ELSE IF region.blocks[index + 1] >= Len(region.palette)
       THEN pc' = "ended" /\ UNCHANGED <<index, yielded>>
       ELSE /\ yielded' = Append(yielded,
                    <<index_to_pos(region, index),
                      region.palette[region.blocks[index + 1] + 1]>>)
            /\ index' = index + 1
            /\ pc' = "iter"
    /\ UNCHANGED <<region, raw, built, nops, call>>

\* The iterator goes out of scope.
Blocks_drop ==
    /\ pc \in {"iter", "ended"}
    /\ pc' = "idle"
    /\ index' = 0
    /\ yielded' = <<>>
    /\ UNCHANGED <<region, raw, built, nops, call>>

(***************************************************************************)
(* The region specification: a region built by Region::new, mutated by     *)
(* set_block and the tile entity operations, iterated, and taken through   *)
(* to_raw and from_raw.                                                    *)
(***************************************************************************)
Start(pairs) ==
    /\ \E c \in pairs : region = new(Name, c[1], c[2])
    /\ pc = "idle"
    /\ raw = <<>>
    /\ index = 0
    /\ yielded = <<>>
    /\ built = "new"
    /\ nops = 0
    /\ call = <<>>

Init == Start(Corners \X Corners)

Next ==
    \/ SetBlock
    \/ SetTileEntity
    \/ RemoveTileEntity
    \/ ToRaw
    \/ FromRaw
    \/ Blocks_new
    \/ Blocks_next
    \/ Blocks_drop

Spec == Init /\ [][Next]_vars

(***************************************************************************)
(* The index specification: pos_to_index and index_to_pos called on their  *)
(* own, as the unit tests of region.rs call them, on a region built from   *)
(* any two corners of a box around the origin, in either order.            *)
(***************************************************************************)
IndexCorners ==
    {Vec3(x, y, z) : x \in (0 - MaxIndexCoord)..MaxIndexCoord,
                     y \in (0 - MaxIndexCoord)..0,
                     z \in 0..MaxIndexCoord}

PosToIndex ==
    /\ pc = "idle"
    /\ \E pos \in BoxPositions(region) :
           call' = <<"pos_to_index", pos, pos_to_index(region, pos)>>
    /\ UNCHANGED <<region, pc, raw, index, yielded, built, nops>>

IndexToPos ==
    /\ pc = "idle"
    /\ \E i \in 0..(Region_volume(region) - 1) :
           call' = <<"index_to_pos", i, index_to_pos(region, i)>>
    /\ UNCHANGED <<region, pc, raw, index, yielded, built, nops>>

InitIndex == Start(IndexCorners \X IndexCorners)

NextIndex == PosToIndex \/ IndexToPos

SpecIndex == InitIndex /\ [][NextIndex]_vars

(***************************************************************************)
(* The packing specification: a region built by Region::new, long enough   *)
(* along x for its packed blocks to fill more than one word, changed by    *)
(* set_block on the first cell and on the cells whose bits reach a word    *)
(* boundary at the width of the largest palette, and taken through to_raw  *)
(* and from_raw.                                                           *)
(***************************************************************************)
PackCorner(s) == Vec3(s * PackExtent, s, s)

PackPairs ==
    {<<Vec3(0, 0, 0), PackCorner(1)>>, <<PackCorner(0 - 1), Vec3(0, 0, 0)>>}

PackValues == 0..MaxPackValue

PackWidth == num_bits_from(2, MaxPackValue + 1)

Straddles(k, nb) == (k * nb) \div WordBits # (k * nb + nb - 1) \div WordBits

PackIndices(r) ==
    {k \in 0..(Len(r.blocks) - 1) : k = 0 \/ Straddles(k, PackWidth)}

PackSetBlock ==
    /\ \E k \in PackIndices(region), block \in PackValues :
           set_block(index_to_pos(region, k), block)
    /\ UNCHANGED nops

InitPack == Start(PackPairs)

NextPack == PackSetBlock \/ ToRaw \/ FromRaw

SpecPack == InitPack /\ [][NextPack]_vars

(***************************************************************************)
(* The palette specification: a region built by Region::new and changed by *)
(* any sequence of set_block calls, made on the minimum corner (the first  *)
(* cell), on the position one step below it on x (outside the box), and on *)
(* the maximum corner.                                                     *)
(***************************************************************************)
PalettePositions(r) ==
    {blocks_origin(r),
     sub(blocks_origin(r), Vec3(1, 0, 0)),
     Vec3(max_x(r), max_y(r), max_z(r))}

PaletteSetBlock ==
    /\ \E pos \in PalettePositions(region), block \in PackValues : set_block(pos, block)
    /\ UNCHANGED nops

NextPalette == PaletteSetBlock

SpecPalette == InitPack /\ [][NextPalette]_vars

(***************************************************************************)
(* The decoding specification: from_raw applied to a record received from  *)
(* outside, well formed or not.                                            *)
(***************************************************************************)
RawSizes == (0 - MaxRawSize)..MaxRawSize

RawPositions == {Vec3(0, 0, 0), Vec3(0 - MaxRawSize, 0, MaxRawSize)}

SeqsUpTo(S, n) == UNION {[1..k -> S] : k \in 0..n}

RawWords == {fold_word(<<>>), fold_word(<<1>>), fold_word(<<0, 1, 1>>)}

RawInputs ==
    {[position |-> p,
      size |-> Vec3(x, y, z),
      block_state_palette |-> pal,
      tile_entities |-> <<>>,
      entities |-> <<>>,
      pending_fluid_ticks |-> <<>>,
      pending_block_ticks |-> <<>>,
      block_states |-> ws] :
        p \in RawPositions, x \in RawSizes, y \in RawSizes, z \in RawSizes,
        pal \in SeqsUpTo(Values, MaxRawPalette),
        ws \in SeqsUpTo(RawWords, MaxRawWords)}

\* The record read from a file arrives.
ReceiveRaw ==
    /\ pc = "idle"
    /\ raw = <<>>
    /\ built = "new"
    /\ \E rw \in RawInputs : raw' = <<rw>>
    /\ UNCHANGED <<region, pc, index, yielded, built, nops, call>>

InitDecode == Start({<<Vec3(0, 0, 0), Vec3(0, 0, 0)>>})

NextDecode == ReceiveRaw \/ FromRaw

SpecDecode == InitDecode /\ [][NextDecode]_vars

(***************************************************************************)
(* Properties.                                                             *)
(***************************************************************************)
Extent(a, b) == (IF a < b THEN b - a ELSE a - b) + 1

BoxVolume(r) ==
    Extent(r.corner1.x, r.corner2.x)
        * Extent(r.corner1.y, r.corner2.y)
        * Extent(r.corner1.z, r.corner2.z)

Least(a, b) == IF a <= b THEN a ELSE b

Bit(n, j) == (n \div pow2(j)) % 2

CeilDiv(a, b) == (a + b - 1) \div b

\* C1: in every reachable state of a Region (after Region::new, after any
\* set_block calls, after from_raw of a record produced by to_raw) the
\* length of the cell array equals the box volume, the product over the
\* axes of |c1.axis - c2.axis| + 1.
C1_LenIsVolume == Len(region.blocks) = BoxVolume(region)

\* C2: from_raw(to_raw(r), r.name) equals r in all fields, for every region
\* r reached from Region::new by set_block and tile entity operations.
C2_RoundTrip == [][FromRaw => region' = region]_vars

\* C3: in the words produced by to_raw no identifier is split across a word
\* boundary: every word holds floor(64 / bitWidth) identifiers, identifier k
\* in word k div that number, and the bits above them are zero.
C3_NoSplit ==
    raw # <<>> =>
        LET nb == num_bits(region)
            per == WordBits \div nb
            ws == raw[1].block_states
        IN  /\ \A k \in 0..(Len(region.blocks) - 1) :
                   /\ k \div per < Len(ws)
                   /\ \A j \in 0..(nb - 1) :
                          ws[(k \div per) + 1][(k % per) * nb + j + 1]
                              = Bit(region.blocks[k + 1], j)
            /\ \A w \in 1..Len(ws) : \A b \in (per * nb + 1)..WordBits : ws[w][b] = 0

\* C3 as amended: the words produced by to_raw are the dense bit stream of
\* the identifiers: bit j of identifier k is bit (k * bitWidth + j) of the
\* stream, word w holds the stream bits 64 w .. 64 w + 63, there are
\* ceil(len * bitWidth / 64) words and the bits of the last word beyond the
\* stream are zero; an identifier that reaches a word boundary is split.
C3_DenseStream ==
    raw # <<>> =>
        LET nb == num_bits(region)
            n == Len(region.blocks)
            ws == raw[1].block_states
        IN  /\ Len(ws) = CeilDiv(n * nb, WordBits)
            /\ \A k \in 0..(n - 1) : \A j \in 0..(nb - 1) :
                   ws[((k * nb + j) \div WordBits) + 1][((k * nb + j) % WordBits) + 1]
                       = Bit(region.blocks[k + 1], j)
            /\ \A w \in 1..Len(ws) : \A b \in 1..WordBits :
                   (w - 1) * WordBits + (b - 1) >= n * nb => ws[w][b] = 0

\* A record made by to_raw at a width that does not divide 64, in which an
\* identifier has a set bit on each side of a word boundary.
C3_Witness ==
    /\ raw # <<>>
    /\ built = "new"
    /\ WordBits % num_bits(region) # 0
    /\ LET nb == num_bits(region)
       IN  \E k \in 0..(Len(region.blocks) - 1) :
               /\ Straddles(k, nb)
               /\ \E i, j \in 0..(nb - 1) :
                      /\ (k * nb + i) \div WordBits # (k * nb + j) \div WordBits
                      /\ Bit(region.blocks[k + 1], i) = 1
                      /\ Bit(region.blocks[k + 1], j) = 1

\* C4: index_to_pos(pos_to_index(p)) = p for every position p inside the
\* box, and pos_to_index(index_to_pos(i)) = i for every i in [0, volume).
C4_IndexBijection ==
    /\ \A p \in BoxPositions(region) :
           index_to_pos(region, pos_to_index(region, p)) = p
    /\ \A i \in 0..(BoxVolume(region) - 1) :
           pos_to_index(region, index_to_pos(region, i)) = i

\* index_to_pos called on the last index of a box whose x and z extents
\* differ, with the corners reversed on x and the first one negative on y.
C4_Witness ==
    /\ call # <<>>
    /\ call[1] = "index_to_pos"
    /\ call[2] = BoxVolume(region) - 1
    /\ call[2] > 0
    /\ region.corner1.x > region.corner2.x
    /\ region.corner1.y < 0
    /\ region.corner1.z < region.corner2.z
    /\ Extent(region.corner1.x, region.corner2.x) # Extent(region.corner1.z, region.corner2.z)
    /\ pos_to_index(region, call[3]) = call[2]

\* C5: for corners in either order and with any signs and every in-box p,
\* pos_to_index(p) = (p.y - min.y) * (size.x * size.z) + (p.z - min.z) * size.x
\* + (p.x - min.x); the minimum corner has index 0, the maximum corner has
\* index volume - 1, and swapping the two corners changes no index.
C5_IndexFormula ==
    LET mn == Vec3(Least(region.corner1.x, region.corner2.x),
                   Least(region.corner1.y, region.corner2.y),
                   Least(region.corner1.z, region.corner2.z))
        sz == Vec3(Extent(region.corner1.x, region.corner2.x),
                   Extent(region.corner1.y, region.corner2.y),
                   Extent(region.corner1.z, region.corner2.z))
        mx == Vec3(mn.x + sz.x - 1, mn.y + sz.y - 1, mn.z + sz.z - 1)
        swapped == [region EXCEPT !.corner1 = region.corner2, !.corner2 = region.corner1]
    IN  /\ \A p \in BoxPositions(region) :
               /\ pos_to_index(region, p)
                      = (p.y - mn.y) * (sz.x * sz.z) + (p.z - mn.z) * sz.x + (p.x - mn.x)
               /\ pos_to_index(swapped, p) = pos_to_index(region, p)
        /\ pos_to_index(region, mn) = 0
        /\ pos_to_index(region, mx) = BoxVolume(region) - 1

\* pos_to_index called on a position away from the minimum on every axis,
\* in a box whose corners are reversed on every axis and whose minimum is
\* negative on two of them; the result involves all three terms.
C5_Witness ==
    /\ call # <<>>
    /\ call[1] = "pos_to_index"
    /\ region.corner1.x > region.corner2.x /\ region.corner2.x < 0
    /\ region.corner1.y > region.corner2.y /\ region.corner2.y < 0
    /\ region.corner1.z > region.corner2.z
    /\ call[2].x > region.corner2.x /\ call[2].x < region.corner1.x
    /\ call[2].y > region.corner2.y
    /\ call[2].z > region.corner2.z
    /\ call[3] > Extent(region.corner1.x, region.corner2.x)
                     * Extent(region.corner1.z, region.corner2.z)

\* C6: on a Region built by Region::new, for every in-box position p and
\* every value v, set_block(p, v) completes without failure, after which
\* get_block(p) = v and get_block(q) is unchanged for every other in-box q.
C6_SetBlockInBox ==
    [][\A p \in Positions, v \in Values :
          (built = "new" /\ InBox(region, p) /\ set_block(p, v)) =>
              /\ pc' # "panicked"
              /\ get_block(region', p) = v
              /\ \A q \in BoxPositions(region) :
                     q # p => get_block(region', q) = get_block(region, q)]_vars

\* C7: iterating blocks() yields exactly volume items and then ends; the
\* k-th item is the pair (index_to_pos(k), value of cell k).
C7_BlocksYieldsVolume ==
    pc = "ended" =>
        /\ Len(yielded) = BoxVolume(region)
        /\ \A k \in 0..(Len(yielded) - 1) :
               yielded[k + 1] = <<index_to_pos(region, k),
                                  region.palette[region.blocks[k + 1] + 1]>>

\* C8: in every state reached from Region::new by set_block calls no two
\* palette entries are equal; a set_block whose value equals an existing
\* palette entry reuses that entry's id and leaves the palette unchanged, and
\* a set_block with a new value appends exactly one entry whose id is the
\* previous palette length, leaving the existing entries as they were.
NoDuplicates(pal) == \A i, j \in 1..Len(pal) : pal[i] = pal[j] => i = j

C8_SetBlockStep ==
    (call' # <<>> /\ call'[1] = "set_block") =>
        LET v == call'[2]
            id == call'[4]
            old == region.palette
        IN  IF \E i \in 1..Len(old) : old[i] = v
            THEN /\ region'.palette = old
                 /\ id < Len(old)
                 /\ old[id + 1] = v
            ELSE /\ region'.palette = Append(old, v)
                 /\ id = Len(old)

C8_IdStored ==
    (call # <<>> /\ call[1] = "set_block" /\ pc = "idle") =>
        /\ call[3] < Len(region.blocks)
        /\ region.blocks[call[3] + 1] = call[4]

C8_PaletteDedup ==
    /\ [](NoDuplicates(region.palette) /\ C8_IdStored)
    /\ [][C8_SetBlockStep]_vars

\* The last set_block call reused an entry that an earlier call appended:
\* its value is not the default, its id is not the last one of the palette,
\* and two cells hold that id.
C8_Witness ==
    /\ built = "new"
    /\ pc = "idle"
    /\ Len(region.palette) > 2
    /\ call # <<>>
    /\ call[1] = "set_block"
    /\ call[2] # Air
    /\ call[4] < Len(region.palette) - 1
    /\ Cardinality({i \in 1..Len(region.blocks) : region.blocks[i] = call[4]}) = 2

\* C9: a set_block call with a position outside the box does not change
\* the value get_block returns for any in-box position.
C9_OutOfBoxFrame ==
    [][\A p \in Positions, v \in Values :
          (~InBox(region, p) /\ set_block(p, v)) =>
              \A q \in BoxPositions(region) :
                  get_block(region', q) = get_block(region, q)]_vars

\* C10: from_raw signals a decode failure when the record is malformed (its
\* word count differs from ceil(volume * bitWidth / 64), or its palette is
\* empty) and then produces no Region.
Malformed(rw) ==
    LET corner1 == rw.position
        corner2 == sub(add(rw.position, rw.size), signum(rw.size))
        vol == Extent(corner1.x, corner2.x) * Extent(corner1.y, corner2.y)
                   * Extent(corner1.z, corner2.z)
        nb == num_bits_from(2, Len(rw.block_state_palette))
    IN  \/ Len(rw.block_states) # CeilDiv(vol * nb, WordBits)
        \/ rw.block_state_palette = <<>>

C10_DecodeFailure ==
    [][(FromRaw /\ Malformed(raw[1])) =>
          (pc' = "decode_failure" /\ region' = region)]_vars

====
